---- MODULE Spec2Model ----
(***************************************************************************)
(* A model of the request router (rlm/core/lm_handler.py), the messages it *)
(* exchanges (rlm/core/comms_utils.py) and the orchestration loop          *)
(* (rlm/core/rlm.py).                                                      *)
(*                                                                         *)
(* Python values are encoded as strings.  None is the string None below,   *)
(* a key that a dict does not hold is Absent, and a JSON value is a record *)
(* [type, prompt, model] whose type is "object" (a dict) or "array".       *)
(*                                                                         *)
(* Six specifications share the variables: Spec (the router serving),      *)
(* LifeSpec (start and stop), FairSpec (fair scheduling), LoopSpec (one    *)
(* RLM.completion call), ConstructSpec (RLM.__init__ and the sub-calls of   *)
(* its environment) and WireSpec (one exchange, byte by byte).             *)
(***************************************************************************)
EXTENDS Integers, Sequences, FiniteSets, TLC

\* ------------------------------------------------------------------ bounds
\* Connections a run opens against the router.
NumConns == 2
\* Listeners (ThreadingLMServer objects) a run constructs.
MaxStarts == 2
\* The largest max_iterations an RLM is constructed with.
MaxIter == 3
\* Segments (code blocks, markers) of one model response.
MaxSegs == 2
\* Threads that call start() and stop() on one handler concurrently, and the
\* calls they make in all.
NumCallers == 2
MaxCalls == 3

\* ------------------------------------------------------- program constants
\* LMHandler.__init__: port = 0 asks the operating system for a free port.
AutoPort == 0
\* LMHandler.__init__: self._server = None, self._thread = None.
NoServer == 0
\* RLM.__init__: max_iterations = 10.
DefaultMaxIterations == 10
\* RLM.__init__: max_depth = 1.
DefaultMaxDepth == 1

None == "<None>"
Absent == "<absent>"
Host == "127.0.0.1"

ClientIds == {"A", "B"}
\* The clients registered under a name besides the default client "A".
RegClients == {"B"}
ModelNames == {"", "m1"}
Prompts == {"p1", "p2"}
ConfiguredPorts == {AutoPort, 7}
EphemeralPorts == 8..(7 + MaxStarts)
Conns == 1..NumConns
Callers == 1..NumCallers
NoAddr == <<"", 0>>
NoEnvironment == [LM_HANDLER_HOST |-> "", LM_HANDLER_PORT |-> 0]

VARIABLES
    \* LMHandler
    default_client, clients, _server, _thread, _port,
    \* every ThreadingLMServer constructed so far: [port, sock, serving]
    listeners,
    \* what the last start()/stop() call returned, and what the start() that
    \* constructed the current listener returned
    lastRet, firstStart,
    \* one inbound connection each: the transport state and, once accepted,
    \* the locals of LMRequestHandler.handle
    cstate, via, stream, request, client, wire_out, invoked,
    \* RLM: max_iterations, and RLM.completion's position and locals
    max_iterations, rlm_pc, message_history, iter_i, response, code_block_strs,
    code_blocks, iteration, final_result,
    \* the calls made to lm_handler.completion, the codes handed to
    \* execute_code in this turn, and the call that first brought a marker
    lm_calls, exec_log, first_marker,
    \* the prompt handed to the latest lm_handler.completion call
    last_prompt,
    \* RLM: max_depth, and the address the environment was constructed with
    max_depth, environment,
    \* one send_lm_request call, or one socket_recv on a frame a peer sent:
    \* the position, the request, the payload the other end framed and how
    \* much of the frame it delivered before closing or falling silent
    w_pc, w_req, w_sent, w_cut, rx_end,
    \* the bytes delivered and not read yet, and the locals of socket_recv
    rx_prefix, rx_payload, raw_len, length, payload,
    \* what socket_recv did, the exception raised inside socket_request, and
    \* the LMResponse send_lm_request returned
    w_recv, w_exc, w_result,
    \* concurrent callers of start() and stop(): where each one is in its
    \* call, the server its stop() read, the exception its last call raised,
    \* and the calls made so far
    t_pc, t_loc, t_err, calls,
    \* every Thread object constructed by start(): [target, started, running],
    \* and the listeners on which a shutdown() has returned
    athreads, shut

routerVars == <<default_client, clients, _server, _thread, _port, listeners,
                lastRet, firstStart>>
connVars == <<cstate, via, stream, request, client, wire_out, invoked>>
loopVars == <<max_iterations, rlm_pc, message_history, iter_i, response,
              code_block_strs, code_blocks, iteration, final_result, lm_calls,
              exec_log, first_marker, last_prompt>>
ctorVars == <<max_depth, environment>>
wireVars == <<w_pc, w_req, w_sent, w_cut, rx_end, rx_prefix, rx_payload, raw_len,
              length, payload, w_recv, w_exc, w_result>>
raceVars == <<t_pc, t_loc, t_err, calls, athreads, shut>>
restVars == <<ctorVars, wireVars, raceVars>>
vars == <<routerVars, connVars, loopVars, restVars>>

\* ---------------------------------------------------------- python values
\* A truth test that takes only None for false.
Falsy_none_only(v) == v = None

Falsy(v) == v = None \/ v = ""
Truthy(v) == ~Falsy(v)

\* dict.get(key, default)
DictGet(d, k, dflt) == IF d[k] = Absent THEN dflt ELSE d[k]

EmptyDict == [type |-> "object", prompt |-> Absent, model |-> Absent]
IsDict(v) == v.type = "object"

\* ------------------------------------------------------------- LMRequest
LMRequest_to_dict(r) ==
    [type |-> "object", prompt |-> r.prompt,
     model |-> IF r.model # None THEN r.model ELSE Absent]

LMRequest_from_dict(data) ==
    [prompt |-> DictGet(data, "prompt", ""), model |-> DictGet(data, "model", None)]

\* ------------------------------------------------------------ LMResponse
success_response(content) == [content |-> content, error |-> None]
error_response(error) == [content |-> None, error |-> error]
success(resp) == resp.error = None

LMResponse_to_dict(resp) ==
    IF resp.error # None
    THEN [content |-> Absent, error |-> resp.error]
    ELSE [content |-> IF Falsy(resp.content) THEN "" ELSE resp.content,
          error |-> Absent]

\* ------------------------------------------------------- wire (inbound)
\* What the peer puts on a connection: nothing before closing, a frame cut
\* short, a frame whose payload is not JSON, or a frame holding a JSON value.
JsonBodies ==
    {[type |-> "array", prompt |-> Absent, model |-> Absent]}
    \cup {[type |-> "object", prompt |-> p, model |-> Absent] : p \in {Absent, ""}}
    \cup {[type |-> "object", prompt |-> "p1", model |-> Absent],
          [type |-> "object", prompt |-> "p2", model |-> "m1"]}

Streams ==
    {[kind |-> k, body |-> EmptyDict] : k \in {"closed", "midclose", "badjson"}}
    \cup {[kind |-> "frame", body |-> b] : b \in JsonBodies}

NoStream == [kind |-> "none", body |-> EmptyDict]

ConnectionClosedMsg == "Connection closed before message complete"
JsonErrorMsg == "Expecting value: line 1 column 1 (char 0)"
SendErrorMsg == "[Errno 32] Broken pipe"
ProviderErrorMsg == "provider error"
NotObjectMsg == "Request must be a JSON object"
MissingPromptMsg == "Missing or invalid 'prompt' in request."

\* socket_recv: the value returned, or the exception raised.
socket_recv(s) ==
    CASE s.kind = "closed"   -> [raised |-> FALSE, value |-> EmptyDict, msg |-> None]
      [] s.kind = "midclose" -> [raised |-> TRUE, value |-> EmptyDict,
                                 msg |-> ConnectionClosedMsg]
      [] s.kind = "badjson"  -> [raised |-> TRUE, value |-> EmptyDict,
                                 msg |-> JsonErrorMsg]
      [] OTHER               -> [raised |-> FALSE, value |-> s.body, msg |-> None]

\* ------------------------------------------------------------ LMHandler
\* get_client over a given table and default client.
get_client_in(tbl, dflt, model) ==
    IF Truthy(model) /\ model \in DOMAIN tbl THEN tbl[model] ELSE dflt

get_client(model) == get_client_in(clients, default_client, model)

\* register_client(model_name, client)
register_client(model_name, cl) ==
    /\ clients' = [n \in DOMAIN clients \cup {model_name} |->
                     IF n = model_name THEN cl ELSE clients[n]]
    /\ UNCHANGED <<default_client, _server, _thread, _port, listeners,
                   lastRet, firstStart, connVars, loopVars, restVars>>

\* the port property and the address property
port == IF _server # NoServer THEN listeners[_server].port ELSE _port
address == <<Host, port>>

\* Ports held by a socket that is still open.
HeldPorts == {listeners[l].port : l \in {k \in DOMAIN listeners : listeners[k].sock = "open"}}

\* ThreadingLMServer((host, port), ...): the ports the bind can end on; the
\* empty set means the bind fails (address already in use).
BindPorts(p) == IF p = AutoPort THEN EphemeralPorts \ HeldPorts ELSE {p} \ HeldPorts

\* start() without the early return for a router that is already running.
start_rebinds ==
    /\ Len(listeners) < MaxStarts
    /\ \E p \in EphemeralPorts \ HeldPorts :
         /\ listeners' = Append(listeners,
                [port |-> p, sock |-> "open", serving |-> TRUE])
         /\ _server' = Len(listeners')
         /\ _thread' = Len(listeners')
         /\ lastRet' = [op |-> "start", rerun |-> _server # NoServer,
                        raised |-> FALSE, addr |-> <<Host, p>>,
                        made |-> Len(listeners') - Len(listeners)]
         /\ firstStart' = IF _server # NoServer THEN firstStart ELSE <<Host, p>>
         /\ UNCHANGED <<default_client, clients, _port, connVars, loopVars, restVars>>

\* start()
start ==
    IF _server # NoServer
    THEN /\ UNCHANGED <<default_client, clients, _server, _thread, _port,
                        listeners, firstStart, connVars, loopVars, restVars>>
         /\ lastRet' = [op |-> "start", rerun |-> TRUE, raised |-> FALSE,
                        addr |-> address,
                        made |-> Len(listeners') - Len(listeners)]
    ELSE /\ Len(listeners) < MaxStarts
         /\ IF BindPorts(_port) = {}
            THEN /\ lastRet' = [op |-> "start", rerun |-> FALSE, raised |-> TRUE,
                                addr |-> NoAddr, made |-> 0]
                 /\ UNCHANGED <<default_client, clients, _server, _thread, _port,
                                listeners, firstStart, connVars, loopVars, restVars>>
            ELSE \E p \in BindPorts(_port) :
                 /\ listeners' = Append(listeners,
                        [port |-> p, sock |-> "open", serving |-> TRUE])
                 /\ _server' = Len(listeners')
                 /\ _thread' = Len(listeners')
                 /\ lastRet' = [op |-> "start", rerun |-> FALSE, raised |-> FALSE,
                                addr |-> <<Host, p>>,
                                made |-> Len(listeners') - Len(listeners)]
                 /\ firstStart' = <<Host, p>>
                 /\ UNCHANGED <<default_client, clients, _port, connVars, loopVars, restVars>>

\* A stop() that also joins the handler threads (what server_close() does for
\* threads that are not daemon threads): it returns once none is running.
stop_joins_handlers ==
    /\ \A c \in Conns : cstate[c] \notin {"accepted", "calling"}
    /\ IF _server # NoServer
       THEN /\ listeners' = [listeners EXCEPT ![_server].serving = FALSE]
            /\ _server' = NoServer
            /\ _thread' = NoServer
       ELSE UNCHANGED <<listeners, _server, _thread>>
    /\ lastRet' = [op |-> "stop", rerun |-> FALSE, raised |-> FALSE,
                   addr |-> NoAddr, made |-> 0]
    /\ UNCHANGED <<default_client, clients, _port, firstStart, connVars, loopVars, restVars>>

\* stop(): shutdown() ends the accept loop; the socket is not closed here.
stop ==
    /\ IF _server # NoServer
       THEN /\ listeners' = [listeners EXCEPT ![_server].serving = FALSE]
            /\ _server' = NoServer
            /\ _thread' = NoServer
       ELSE UNCHANGED <<listeners, _server, _thread>>
    /\ lastRet' = [op |-> "stop", rerun |-> FALSE, raised |-> FALSE,
                   addr |-> NoAddr, made |-> 0]
    /\ UNCHANGED <<default_client, clients, _port, firstStart, connVars, loopVars, restVars>>

\* A handler thread that has not finished keeps its server object alive.
InFlight(c) == cstate[c] \in {"accepted", "calling"}

\* Once nothing refers to a stopped server any more, the runtime may finalize
\* its socket; connections still waiting in its backlog are reset.
collect_server(l) ==
    /\ l \in DOMAIN listeners
    /\ l # _server
    /\ ~listeners[l].serving
    /\ listeners[l].sock = "open"
    /\ \A c \in Conns : InFlight(c) => via[c] # l
    /\ listeners' = [listeners EXCEPT ![l].sock = "closed"]
    /\ cstate' = [c \in Conns |->
                    IF cstate[c] = "backlog" /\ via[c] = l THEN "reset" ELSE cstate[c]]
    /\ UNCHANGED <<default_client, clients, _server, _thread, _port, lastRet,
                   firstStart, via, stream, request, client, wire_out, invoked,
                   loopVars, restVars>>

\* ------------------------------------------------------------ transport
\* sock.connect(addr): the kernel completes the handshake whenever a socket
\* is still listening on the port of addr; otherwise the connection is
\* refused.
connect_to(c, addr) ==
    /\ cstate[c] = "idle"
    /\ IF c = 1 THEN TRUE ELSE cstate[c - 1] # "idle"
    /\ addr # NoAddr
    /\ LET ls == {l \in DOMAIN listeners :
                    listeners[l].sock = "open" /\ listeners[l].port = addr[2]}
       IN  IF ls = {}
           THEN /\ cstate' = [cstate EXCEPT ![c] = "refused"]
                /\ UNCHANGED via
           ELSE /\ cstate' = [cstate EXCEPT ![c] = "backlog"]
                /\ via' = [via EXCEPT ![c] = CHOOSE l \in ls : TRUE]
    /\ UNCHANGED <<loopVars, restVars, routerVars, stream, request, client, wire_out, invoked>>

\* A peer opens a connection to the address the last successful start()
\* returned.
connect(c) == connect_to(c, firstStart)

\* A server without the threading mix-in handles a request inside the accept
\* loop: nothing is accepted while a handler runs.
process_request_inline(c) ==
    \A d \in Conns : d # c => cstate[d] \notin {"accepted", "calling"}

\* ThreadingMixIn.process_request: every accepted connection gets a thread of
\* its own, whatever the other handler threads are doing.
process_request(c) == TRUE

\* serve_forever: the accept loop of a listener that has not been shut down
\* takes a connection from the backlog and hands it to process_request.
accept(c) ==
    /\ cstate[c] = "backlog"
    /\ listeners[via[c]].serving
    /\ process_request(c)
    /\ cstate' = [cstate EXCEPT ![c] = "accepted"]
    /\ UNCHANGED <<loopVars, restVars, routerVars, via, stream, request, client, wire_out, invoked>>

\* ------------------------------------------------ LMRequestHandler.handle
\* socket_send(self.connection, d) appends the frame d to the connection, or
\* raises when the transport fails (ok = FALSE).

\* The except clause: one more socket_send, outside any try.
except_clause(w, msg, ok) ==
    IF ok
    THEN [wire |-> Append(w, LMResponse_to_dict(error_response(msg))), st |-> "returned"]
    ELSE [wire |-> w, st |-> "escaped"]

\* A handler that sends its error response in a finally clause: the send
\* runs after a socket_send that got through as well.
try_send_finally(w, resp, ok1, ok2) ==
    except_clause(IF ok1 THEN Append(w, LMResponse_to_dict(resp)) ELSE w,
                  SendErrorMsg, ok2)

\* A socket_send inside the try block, followed by the return.
try_send(w, resp, ok1, ok2) ==
    IF ok1
    THEN [wire |-> Append(w, LMResponse_to_dict(resp)), st |-> "returned"]
    ELSE except_clause(w, SendErrorMsg, ok2)

\* The text a client's completion returns for a prompt.
completion(cl, prompt) == cl \o ":" \o prompt

\* A handler that keeps the request on the shared server object computes the
\* content from the request of the connection dispatched last.
content_for_shared(c) ==
    LET calling == {d \in Conns : cstate[d] = "calling"}
        last == CHOOSE d \in calling : \A e \in calling : e <= d
    IN  completion(client[c], request[last].prompt)

\* The content computed for connection c: client.completion(request.prompt).
content_for(c) == completion(client[c], request[c].prompt)

finish(c, r) ==
    /\ wire_out' = [wire_out EXCEPT ![c] = r.wire]
    /\ cstate' = [cstate EXCEPT ![c] = r.st]

\* handle(), from socket_recv to the call of client.completion.  s is what
\* the peer put on the connection; ok1 and ok2 tell whether the socket_send
\* of the try block and the one of the except clause get through.
handle_request(c, s, ok1, ok2) ==
    /\ cstate[c] = "accepted"
    /\ LET r == socket_recv(s)
           req == LMRequest_from_dict(r.value)
       IN  /\ stream' = [stream EXCEPT ![c] = s]
           /\ IF r.raised
              THEN /\ ok1
                   /\ finish(c, except_clause(wire_out[c], r.msg, ok2))
                   /\ UNCHANGED <<request, client, invoked>>
              ELSE IF ~IsDict(r.value)
              THEN /\ finish(c, try_send(wire_out[c], error_response(NotObjectMsg),
                                          ok1, ok2))
                   /\ UNCHANGED <<request, client, invoked>>
              ELSE IF Falsy(req.prompt)
              THEN /\ finish(c, try_send(wire_out[c],
                                          error_response(MissingPromptMsg), ok1, ok2))
                   /\ UNCHANGED <<request, client, invoked>>
              ELSE /\ ok1 /\ ok2
                   /\ request' = [request EXCEPT ![c] = req]
                   /\ client' = [client EXCEPT ![c] = get_client(req.model)]
                   /\ invoked' = [invoked EXCEPT ![c] =
                          Append(@, <<get_client(req.model), req.prompt>>)]
                   /\ cstate' = [cstate EXCEPT ![c] = "calling"]
                   /\ UNCHANGED wire_out
    /\ UNCHANGED <<loopVars, restVars, routerVars, via>>

\* client.completion returns: the success response is sent.
completion_returns(c, ok1, ok2) ==
    /\ cstate[c] = "calling"
    /\ finish(c, try_send(wire_out[c], success_response(content_for(c)), ok1, ok2))
    /\ UNCHANGED <<loopVars, restVars, routerVars, via, stream, request, client, invoked>>

\* client.completion raises: the except clause runs.
completion_raises(c, ok) ==
    /\ cstate[c] = "calling"
    /\ finish(c, except_clause(wire_out[c], ProviderErrorMsg, ok))
    /\ UNCHANGED <<loopVars, restVars, routerVars, via, stream, request, client, invoked>>

\* --------------------------------------------------------------- RLM
\* A model response is the sequence of its segments: a fenced code block
\* ("A", "B") or a final-answer marker ("F").
Segments == {"A", "B", "F"}
AllSeqs(S, n) == UNION {[1..k -> S] : k \in 0..n}
Responses == AllSeqs(Segments, MaxSegs)
UserPrompt == <<"q">>
FinalAnswerText == "ans"
NoIteration == [response |-> <<>>, code_blocks |-> <<>>]

IsCode(seg) == seg \in {"A", "B"}

\* extract_code_blocks(response): the fenced blocks in document order.
extract_code_blocks(resp) == SelectSeq(resp, IsCode)

\* extract_final_answer(iteration): the marked answer, None without a marker.
extract_final_answer(it) ==
    IF \E i \in DOMAIN it.response : it.response[i] = "F"
    THEN FinalAnswerText ELSE None

\* environment.execute_code(code): block "B" fails, that is, writes to stderr.
execute_code(code) ==
    IF code = "B" THEN [stdout |-> "", stderr |-> "err:" \o code]
    ELSE [stdout |-> "out:" \o code, stderr |-> ""]

\* format_iteration(iteration): the response, then one message for each code
\* block with its output, in order.
format_iteration(it) ==
    <<[role |-> "assistant", content |-> it.response]>>
    \o [i \in 1..Len(it.code_blocks) |->
          [role |-> "user",
           content |-> <<it.code_blocks[i].code, it.code_blocks[i].result.stdout,
                         it.code_blocks[i].result.stderr>>]]

\* _setup_prompt(prompt)
_setup_prompt(prompt) == <<[role |-> "user", content |-> prompt]>>

\* _default_answer(message_history)
_default_answer(h) == "The RLM ran out of iterations and did not find a final answer."

\* for i in range(self.max_iterations), taken one iteration too far
range_has_next_inclusive(i) == i <= max_iterations

\* for i in range(self.max_iterations): another iteration follows i done ones
range_has_next(i) == i < max_iterations

\* for code_block_str in code_block_strs, given up at the first failed block
more_blocks_until_error ==
    /\ Len(code_blocks) < Len(code_block_strs)
    /\ \A i \in DOMAIN code_blocks : code_blocks[i].result.stderr = ""

\* for code_block_str in code_block_strs: a block is left to execute
more_blocks == Len(code_blocks) < Len(code_block_strs)

\* a loop that goes on after a final answer was extracted
never_returns(final_answer) == FALSE

\* if final_answer: return final_answer
returns_answer(final_answer) == Truthy(final_answer)

\* a history that takes the new messages in front of the old ones
extend_front(h, new_messages) == new_messages \o h

\* message_history.extend(new_messages)
extend(h, new_messages) == h \o new_messages

\* completion(): message_history = self._setup_prompt(prompt), then the loop
\* is entered, or left at once for the default answer.
rlm_completion ==
    /\ rlm_pc = "idle"
    /\ message_history' = _setup_prompt(UserPrompt)
    /\ iter_i' = 0
    /\ IF range_has_next(0)
       THEN /\ rlm_pc' = "turn"
            /\ UNCHANGED final_result
       ELSE /\ rlm_pc' = "done"
            /\ final_result' = _default_answer(message_history')
    /\ UNCHANGED <<max_iterations, last_prompt, response, code_block_strs, code_blocks,
                   iteration, lm_calls, exec_log, first_marker, routerVars, connVars, restVars>>

\* _completion_turn: response = self.lm_handler.completion(prompt) returns a
\* text, and extract_code_blocks is applied to it.  LMHandler.completion is
\* called without a model, so the client is get_client(None).
turn_completion(resp) ==
    /\ rlm_pc = "turn"
    /\ last_prompt' = message_history
    /\ get_client(None) = default_client
    /\ response' = resp
    /\ lm_calls' = lm_calls + 1
    /\ first_marker' = IF first_marker = 0 /\ (\E i \in DOMAIN resp : resp[i] = "F")
                       THEN lm_calls' ELSE first_marker
    /\ code_block_strs' = extract_code_blocks(resp)
    /\ code_blocks' = <<>>
    /\ exec_log' = <<>>
    /\ rlm_pc' = "exec"
    /\ UNCHANGED <<max_iterations, message_history, iter_i, iteration,
                   final_result, routerVars, connVars, restVars>>

\* _completion_turn: self.lm_handler.completion(prompt) raises; nothing in
\* _completion_turn or completion catches it.
turn_completion_raises ==
    /\ rlm_pc = "turn"
    /\ last_prompt' = message_history
    /\ lm_calls' = lm_calls + 1
    /\ rlm_pc' = "raised"
    /\ UNCHANGED <<max_iterations, message_history, iter_i, response,
                   code_block_strs, code_blocks, iteration, final_result,
                   exec_log, first_marker, routerVars, connVars, restVars>>

\* _completion_turn: one pass of the for loop over code_block_strs.
turn_execute ==
    /\ rlm_pc = "exec"
    /\ more_blocks
    /\ LET code == code_block_strs[Len(code_blocks) + 1]
       IN  /\ exec_log' = Append(exec_log, code)
           /\ code_blocks' = Append(code_blocks,
                                    [code |-> code, result |-> execute_code(code)])
    /\ UNCHANGED <<max_iterations, last_prompt, rlm_pc, message_history, iter_i, response,
                   code_block_strs, iteration, final_result, lm_calls,
                   first_marker, routerVars, connVars, restVars>>

\* _completion_turn: return RLMIteration(response, code_blocks)
turn_return ==
    /\ rlm_pc = "exec"
    /\ ~more_blocks
    /\ iteration' = [response |-> response, code_blocks |-> code_blocks]
    /\ rlm_pc' = "check"
    /\ UNCHANGED <<max_iterations, last_prompt, message_history, iter_i, response,
                   code_block_strs, code_blocks, final_result, lm_calls,
                   exec_log, first_marker, routerVars, connVars, restVars>>

\* completion(): the rest of the loop body, and the default answer once the
\* range is exhausted.
loop_check ==
    /\ rlm_pc = "check"
    /\ LET final_answer == extract_final_answer(iteration)
       IN  IF returns_answer(final_answer)
           THEN /\ final_result' = final_answer
                /\ rlm_pc' = "done"
                /\ UNCHANGED <<message_history, iter_i>>
           ELSE /\ message_history' = extend(message_history, format_iteration(iteration))
                /\ iter_i' = iter_i + 1
                /\ IF range_has_next(iter_i')
                   THEN /\ rlm_pc' = "turn"
                        /\ UNCHANGED final_result
                   ELSE /\ rlm_pc' = "done"
                        /\ final_result' = _default_answer(message_history')
    /\ UNCHANGED <<max_iterations, last_prompt, response, code_block_strs, code_blocks,
                   iteration, lm_calls, exec_log, first_marker, routerVars, connVars, restVars>>

\* ------------------------------------------------ the wire, byte by byte
\* A JSON object on the wire is the sequence of its tokens, one token for a
\* byte: a brace, then every key it holds with its value, then a brace.
JsonKeys == <<"prompt", "model", "content", "error">>

Has(d, k) == k \in DOMAIN d /\ d[k] # Absent

\* The dict read from the wire: every key it may hold, Absent when it does not.
AsDict(d) ==
    [k \in {"type"} \cup {JsonKeys[i] : i \in DOMAIN JsonKeys} |->
        IF k = "type" THEN "object" ELSE IF Has(d, k) THEN d[k] ELSE Absent]

RECURSIVE dumps_from(_, _)
dumps_from(d, i) ==
    IF i > Len(JsonKeys) THEN <<>>
    ELSE (IF Has(d, JsonKeys[i]) THEN <<JsonKeys[i], d[JsonKeys[i]]>> ELSE <<>>)
         \o dumps_from(d, i + 1)

\* json.dumps(data).encode("utf-8")
json_dumps(d) == <<"{">> \o dumps_from(d, 1) \o <<"}">>

\* json.loads(payload.decode("utf-8")): the dict, or the decoding error
json_loads(toks) ==
    LET n == Len(toks)
        keyAt == {i \in 2..(n - 1) : i % 2 = 0}
        wellFormed ==
            /\ n >= 2 /\ n % 2 = 0
            /\ toks[1] = "{" /\ toks[n] = "}"
            /\ \A i \in keyAt : \E j \in DOMAIN JsonKeys : toks[i] = JsonKeys[j]
        valueOf(k) ==
            IF \E i \in keyAt : toks[i] = k
            THEN toks[(CHOOSE i \in keyAt :
                         toks[i] = k /\ \A j \in keyAt : toks[j] = k => j <= i) + 1]
            ELSE Absent
    IN  IF wellFormed
        THEN [raised |-> FALSE, msg |-> None,
              value |-> [k \in {"type"} \cup {JsonKeys[i] : i \in DOMAIN JsonKeys} |->
                            IF k = "type" THEN "object" ELSE valueOf(k)]]
        ELSE [raised |-> TRUE, msg |-> JsonErrorMsg, value |-> AsDict(EmptyDict)]

\* struct.pack(">I", n) and struct.unpack(">I", b)[0]
pack(n) == <<(n \div 16777216) % 256, (n \div 65536) % 256, (n \div 256) % 256, n % 256>>
unpack(b) == b[1] * 16777216 + b[2] * 65536 + b[3] * 256 + b[4]

\* socket_send(sock, data): the prefix and the payload, sent as one buffer.
socket_send(d) == [prefix |-> pack(Len(json_dumps(d))), payload |-> json_dumps(d)]

\* LMResponse.from_dict(data)
LMResponse_from_dict(data) ==
    [content |-> DictGet(data, "content", None), error |-> DictGet(data, "error", None)]

StructErrorMsg == "unpack requires a buffer of 4 bytes"
TimeoutMsg == "timed out"
RefusedMsg == "[Errno 111] Connection refused"
NoRequest == [prompt |-> None, model |-> None]
NoExc == [kind |-> "", msg |-> None]
NoRecv == [raised |-> FALSE, msg |-> None, value |-> AsDict(EmptyDict), ran |-> FALSE]
NoResponse == [content |-> None, error |-> None]

\* The requests a caller hands to send_lm_request.
ValidRequests == [prompt : Prompts, model : {None} \cup ModelNames]

\* What a router answers to request r, and a payload that is not JSON.
ResponsePayloads(r) ==
    {json_dumps(LMResponse_to_dict(success_response(completion("A", r.prompt)))),
     json_dumps(LMResponse_to_dict(success_response(""))),
     json_dumps(LMResponse_to_dict(error_response(ProviderErrorMsg))),
     <<"{", "content">>}

FrameLen(toks) == 4 + Len(toks)
Min(a, b) == IF a < b THEN a ELSE b

\* The other end frames the payload toks and delivers the first cut bytes of
\* the frame; after them the connection is closed, or stays silent.
deliver(toks, cut, end) ==
    /\ w_sent' = toks
    /\ w_cut' = cut
    /\ rx_end' = end
    /\ rx_prefix' = SubSeq(pack(Len(toks)), 1, Min(cut, 4))
    /\ rx_payload' = SubSeq(toks, 1, cut - 4)

\* an except clause that lets everything but the errors of the socket pass
caught_os_errors(kind) ==
    kind \in {"ConnectionRefusedError", "timeout", "BrokenPipeError", "ConnectionError"}

\* except Exception as e
caught(kind) == TRUE

\* An exception is raised inside socket_request: the except clause of
\* send_lm_request, or the caller of a bare socket_recv, gets it.
raise(kind, msg, ran) ==
    /\ w_exc' = [kind |-> kind, msg |-> msg]
    /\ w_recv' = IF ran THEN [raised |-> TRUE, msg |-> msg,
                              value |-> AsDict(EmptyDict), ran |-> TRUE]
                 ELSE w_recv
    /\ IF w_req = NoRequest \/ caught(kind)
       THEN /\ w_pc' = "done"
            /\ w_result' = IF w_req = NoRequest THEN w_result
                           ELSE error_response("Request failed: " \o msg)
       ELSE /\ w_pc' = "raised"
            /\ UNCHANGED w_result

\* socket_recv returns data; send_lm_request returns LMResponse.from_dict(data).
return(data) ==
    /\ w_recv' = [raised |-> FALSE, msg |-> None, value |-> data, ran |-> TRUE]
    /\ w_pc' = "done"
    /\ w_result' = IF w_req = NoRequest THEN w_result ELSE LMResponse_from_dict(data)
    /\ UNCHANGED w_exc

\* A peer calls socket_send(sock, data) and this end calls socket_recv(sock).
peer_socket_send(d, cut, end) ==
    /\ w_pc = "idle"
    /\ cut \in 0..FrameLen(json_dumps(d))
    /\ cut = FrameLen(json_dumps(d)) => end = "close"
    /\ deliver(json_dumps(d), cut, end)
    /\ w_pc' = "recv"
    /\ UNCHANGED <<w_req, raw_len, length, payload, w_recv, w_exc, w_result,
                   ctorVars, raceVars, routerVars, connVars, loopVars>>

\* send_lm_request(address, request, timeout) is called.
send_lm_request(r) ==
    /\ w_pc = "idle"
    /\ w_req' = r
    /\ w_pc' = "connect"
    /\ UNCHANGED <<w_sent, w_cut, rx_end, rx_prefix, rx_payload, raw_len, length,
                   payload, w_recv, w_exc, w_result,
                   ctorVars, raceVars, routerVars, connVars, loopVars>>

\* socket_request: sock.settimeout(timeout); sock.connect(address)
sock_connect(outcome) ==
    /\ w_pc = "connect"
    /\ CASE outcome = "refused" -> raise("ConnectionRefusedError", RefusedMsg, FALSE)
         [] outcome = "timeout" -> raise("timeout", TimeoutMsg, FALSE)
         [] OTHER -> /\ w_pc' = "send"
                     /\ UNCHANGED <<w_recv, w_exc, w_result>>
    /\ UNCHANGED <<w_req, w_sent, w_cut, rx_end, rx_prefix, rx_payload, raw_len,
                   length, payload, ctorVars, raceVars, routerVars, connVars, loopVars>>

\* socket_request: socket_send(sock, data), which the transport may fail;
\* the other end then answers with toks, of which cut bytes arrive.
sock_send(ok, end) ==
    /\ w_pc = "send"
    /\ IF ok
       THEN \E toks \in ResponsePayloads(w_req) : \E cut \in 0..FrameLen(toks) :
            /\ cut = FrameLen(toks) => end = "close"
            /\ deliver(toks, cut, end)
            /\ w_pc' = "recv"
            /\ UNCHANGED <<w_recv, w_exc, w_result>>
       ELSE /\ end = "close"
            /\ raise("BrokenPipeError", SendErrorMsg, FALSE)
            /\ UNCHANGED <<w_sent, w_cut, rx_end, rx_prefix, rx_payload>>
    /\ UNCHANGED <<w_req, raw_len, length, payload,
                   ctorVars, raceVars, routerVars, connVars, loopVars>>

\* socket_recv: raw_len = sock.recv(4), which returns k of the bytes that
\* have arrived, nothing once the connection is closed, or times out; then
\* the test of raw_len and struct.unpack.
recv_len(k) ==
    /\ w_pc = "recv"
    /\ IF rx_prefix = <<>>
       THEN /\ k = 0
            /\ IF rx_end = "close"
               THEN return(AsDict(EmptyDict))
               ELSE raise("timeout", TimeoutMsg, TRUE)
            /\ UNCHANGED <<raw_len, length, payload, rx_prefix>>
       ELSE /\ k \in 1..Len(rx_prefix)
            /\ raw_len' = SubSeq(rx_prefix, 1, k)
            /\ rx_prefix' = SubSeq(rx_prefix, k + 1, Len(rx_prefix))
            /\ IF k # 4
               THEN /\ raise("struct.error", StructErrorMsg, TRUE)
                    /\ UNCHANGED <<length, payload>>
               ELSE /\ length' = unpack(raw_len')
                    /\ payload' = <<>>
                    /\ w_pc' = "payload"
                    /\ UNCHANGED <<w_recv, w_exc, w_result>>
    /\ UNCHANGED <<w_req, w_sent, w_cut, rx_end, rx_payload,
                   ctorVars, raceVars, routerVars, connVars, loopVars>>

\* socket_recv: one pass of the while loop, chunk = sock.recv(length -
\* len(payload)) returning some k bytes.
recv_chunk ==
    /\ w_pc = "payload"
    /\ Len(payload) < length
    /\ IF rx_payload = <<>>
       THEN /\ IF rx_end = "close"
               THEN raise("ConnectionError", ConnectionClosedMsg, TRUE)
               ELSE raise("timeout", TimeoutMsg, TRUE)
            /\ UNCHANGED <<payload, rx_payload>>
       ELSE \E k \in 1..Min(length - Len(payload), Len(rx_payload)) :
            /\ payload' = payload \o SubSeq(rx_payload, 1, k)
            /\ rx_payload' = SubSeq(rx_payload, k + 1, Len(rx_payload))
            /\ UNCHANGED <<w_pc, w_recv, w_exc, w_result>>
    /\ UNCHANGED <<w_req, w_sent, w_cut, rx_end, rx_prefix, raw_len, length,
                   ctorVars, raceVars, routerVars, connVars, loopVars>>

\* socket_recv: the loop is left, return json.loads(payload.decode("utf-8"))
recv_loads ==
    /\ w_pc = "payload"
    /\ Len(payload) >= length
    /\ LET r == json_loads(payload)
       IN  IF r.raised THEN raise("JSONDecodeError", r.msg, TRUE)
           ELSE return(r.value)
    /\ UNCHANGED <<w_req, w_sent, w_cut, rx_end, rx_prefix, rx_payload, raw_len,
                   length, payload, ctorVars, raceVars, routerVars, connVars, loopVars>>

\* ------------------------------------------------------- RLM.__init__
\* The nesting depth of a request sent by code that the environment of this
\* RLM executes; the call of RLM.completion itself is at depth 0.
SubCallDepth == 1

\* the environment given the port the router was configured with
env_port_configured == _port

\* environment_kwargs["LM_HANDLER_PORT"] = self.lm_handler.port
env_port == port

\* __init__ registers the other backends before it starts the router.
register_other_backends(model_name, cl) ==
    /\ lastRet.op = "none"
    /\ register_client(model_name, cl)

\* __init__ after self.lm_handler.start() has returned: the handler's host
\* and port go into environment_kwargs, then get_environment is called.
get_environment ==
    /\ lastRet.op = "start"
    /\ ~lastRet.raised
    /\ environment = NoEnvironment
    /\ environment' = [LM_HANDLER_HOST |-> Host, LM_HANDLER_PORT |-> env_port]
    /\ UNCHANGED <<max_depth, wireVars, raceVars, routerVars, connVars, loopVars>>

\* The requests llm_query sends: a prompt, with or without a model name.
QueryStreams ==
    {[kind |-> "frame", body |-> LMRequest_to_dict([prompt |-> p, model |-> m])] :
        p \in Prompts, m \in {None, "m1"}}

\* Code executed by the environment calls llm_query: a connection to the
\* address the environment was constructed with.
llm_query(c) ==
    /\ environment # NoEnvironment
    /\ connect_to(c, <<environment.LM_HANDLER_HOST, environment.LM_HANDLER_PORT>>)

\* ------------------------------------- start() and stop(), step by step
\* Caller t goes to position pc; what the steps below do not name stays.
goto(t, pc) == t_pc' = [t_pc EXCEPT ![t] = pc]

\* The call of caller t returns, or raises exc.
call_ends(t, exc) ==
    /\ t_pc' = [t_pc EXCEPT ![t] = "idle"]
    /\ t_err' = [t_err EXCEPT ![t] = exc]

raceRest == <<default_client, clients, _port, lastRet, firstStart, connVars,
              loopVars, ctorVars, wireVars>>

\* A thread calls start().
call_start(t) ==
    /\ t_pc[t] = "idle"
    /\ calls < MaxCalls
    /\ calls' = calls + 1
    /\ goto(t, "s_check")
    /\ t_err' = [t_err EXCEPT ![t] = None]
    /\ UNCHANGED <<_server, _thread, listeners, t_loc, athreads, shut, raceRest>>

\* A thread calls stop().
call_stop(t) ==
    /\ t_pc[t] = "idle"
    /\ calls < MaxCalls
    /\ calls' = calls + 1
    /\ goto(t, "t_check")
    /\ t_err' = [t_err EXCEPT ![t] = None]
    /\ UNCHANGED <<_server, _thread, listeners, t_loc, athreads, shut, raceRest>>

\* start(): if self._server is not None: return self.address
s_check(t) ==
    /\ t_pc[t] = "s_check"
    /\ goto(t, IF _server # NoServer THEN "p_check" ELSE "s_construct")
    /\ UNCHANGED <<_server, _thread, listeners, t_loc, t_err, calls, athreads, shut,
                   raceRest>>

\* start(): self._server = ThreadingLMServer((self.host, self._port), ...);
\* the constructor binds and listens, or raises when the port is taken.
s_construct(t) ==
    /\ t_pc[t] = "s_construct"
    /\ Len(listeners) < MaxStarts
    /\ IF BindPorts(_port) = {}
       THEN /\ call_ends(t, "OSError")
            /\ UNCHANGED <<_server, listeners>>
       ELSE \E p \in BindPorts(_port) :
            /\ listeners' = Append(listeners,
                   [port |-> p, sock |-> "open", serving |-> FALSE])
            /\ _server' = Len(listeners')
            /\ goto(t, "s_attr")
            /\ UNCHANGED t_err
    /\ UNCHANGED <<_thread, t_loc, calls, athreads, shut, raceRest>>

\* start(): self._server.lm_handler = self
s_attr(t) ==
    /\ t_pc[t] = "s_attr"
    /\ IF _server = NoServer
       THEN call_ends(t, "AttributeError")
       ELSE goto(t, "s_thread") /\ UNCHANGED t_err
    /\ UNCHANGED <<_server, _thread, listeners, t_loc, calls, athreads, shut, raceRest>>

\* start(): self._thread = Thread(target=self._server.serve_forever, ...)
s_thread(t) ==
    /\ t_pc[t] = "s_thread"
    /\ IF _server = NoServer
       THEN /\ call_ends(t, "AttributeError")
            /\ UNCHANGED <<_thread, athreads>>
       ELSE /\ athreads' = Append(athreads,
                   [target |-> _server, started |-> FALSE, running |-> FALSE])
            /\ _thread' = Len(athreads')
            /\ goto(t, "s_tstart")
            /\ UNCHANGED t_err
    /\ UNCHANGED <<_server, listeners, t_loc, calls, shut, raceRest>>

\* start(): self._thread.start(); the thread runs serve_forever of its target.
s_tstart(t) ==
    /\ t_pc[t] = "s_tstart"
    /\ IF _thread = NoServer
       THEN /\ call_ends(t, "AttributeError")
            /\ UNCHANGED <<athreads, listeners>>
       ELSE IF athreads[_thread].started
       THEN /\ call_ends(t, "RuntimeError")
            /\ UNCHANGED <<athreads, listeners>>
       ELSE /\ athreads' = [athreads EXCEPT ![_thread].started = TRUE,
                                            ![_thread].running = TRUE]
            /\ listeners' = [listeners EXCEPT ![athreads[_thread].target].serving = TRUE]
            /\ goto(t, "p_check")
            /\ UNCHANGED t_err
    /\ UNCHANGED <<_server, _thread, t_loc, calls, shut, raceRest>>

\* return self.address: the port property tests self._server ...
p_check(t) ==
    /\ t_pc[t] = "p_check"
    /\ IF _server # NoServer
       THEN goto(t, "p_use") /\ UNCHANGED t_err
       ELSE call_ends(t, None)
    /\ UNCHANGED <<_server, _thread, listeners, t_loc, calls, athreads, shut, raceRest>>

\* ... and then reads self._server.server_address[1]
p_use(t) ==
    /\ t_pc[t] = "p_use"
    /\ call_ends(t, IF _server = NoServer THEN "AttributeError" ELSE None)
    /\ UNCHANGED <<_server, _thread, listeners, t_loc, calls, athreads, shut, raceRest>>

\* stop(): if self._server:
t_check(t) ==
    /\ t_pc[t] = "t_check"
    /\ goto(t, IF _server # NoServer THEN "t_read" ELSE "t_clear_server")
    /\ UNCHANGED <<_server, _thread, listeners, t_loc, t_err, calls, athreads, shut,
                   raceRest>>

\* stop(): self._server is read once more for self._server.shutdown()
t_read(t) ==
    /\ t_pc[t] = "t_read"
    /\ IF _server = NoServer
       THEN /\ call_ends(t, "AttributeError")
            /\ UNCHANGED t_loc
       ELSE /\ t_loc' = [t_loc EXCEPT ![t] = _server]
            /\ goto(t, "t_shutdown")
            /\ UNCHANGED t_err
    /\ UNCHANGED <<_server, _thread, listeners, calls, athreads, shut, raceRest>>

\* shutdown() returns once serve_forever of that server has left its loop: at
\* once on a server already shut down, never on one that was never served.
t_shutdown(t) ==
    /\ t_pc[t] = "t_shutdown"
    /\ listeners[t_loc[t]].serving \/ t_loc[t] \in shut
    /\ listeners' = [listeners EXCEPT ![t_loc[t]].serving = FALSE]
    /\ athreads' = [i \in DOMAIN athreads |->
                      IF athreads[i].target = t_loc[t]
                      THEN [athreads[i] EXCEPT !.running = FALSE] ELSE athreads[i]]
    /\ shut' = shut \cup {t_loc[t]}
    /\ goto(t, "t_clear_server")
    /\ UNCHANGED <<_server, _thread, t_loc, t_err, calls, raceRest>>

\* stop(): self._server = None
t_clear_server(t) ==
    /\ t_pc[t] = "t_clear_server"
    /\ _server' = NoServer
    /\ goto(t, "t_clear_thread")
    /\ UNCHANGED <<_thread, listeners, t_loc, t_err, calls, athreads, shut, raceRest>>

\* stop(): self._thread = None
t_clear_thread(t) ==
    /\ t_pc[t] = "t_clear_thread"
    /\ _thread' = NoServer
    /\ call_ends(t, None)
    /\ UNCHANGED <<_server, listeners, t_loc, calls, athreads, shut, raceRest>>

\* ------------------------------------------------------- specification
NoRet == [op |-> "none", rerun |-> FALSE, raised |-> FALSE, addr |-> NoAddr, made |-> 0]

\* LMHandler.__init__ with port in ports; no connection yet.
RouterInit(ports) ==
    /\ default_client = "A"
    /\ clients = <<>>
    /\ _server = NoServer
    /\ _thread = NoServer
    /\ _port \in ports
    /\ listeners = <<>>
    /\ lastRet = NoRet
    /\ firstStart = NoAddr
    /\ cstate = [c \in Conns |-> "idle"]
    /\ via = [c \in Conns |-> NoServer]
    /\ stream = [c \in Conns |-> NoStream]
    /\ request = [c \in Conns |-> NoRequest]
    /\ client = [c \in Conns |-> None]
    /\ wire_out = [c \in Conns |-> <<>>]
    /\ invoked = [c \in Conns |-> <<>>]

\* RLM.__init__ with max_iterations in bounds; completion not called yet.
LoopInit(limits) ==
    /\ max_iterations \in limits
    /\ rlm_pc = "idle"
    /\ message_history = <<>>
    /\ iter_i = 0
    /\ response = <<>>
    /\ code_block_strs = <<>>
    /\ code_blocks = <<>>
    /\ iteration = NoIteration
    /\ final_result = None
    /\ lm_calls = 0
    /\ exec_log = <<>>
    /\ first_marker = 0
    /\ last_prompt = <<>>

\* RLM.__init__ with max_depth in depths, before get_environment.
RestInit(depths) ==
    /\ max_depth \in depths
    /\ environment = NoEnvironment
    /\ w_pc = "idle"
    /\ w_req = NoRequest
    /\ w_sent = <<>>
    /\ w_cut = 0
    /\ rx_end = "close"
    /\ rx_prefix = <<>>
    /\ rx_payload = <<>>
    /\ raw_len = <<>>
    /\ length = 0
    /\ payload = <<>>
    /\ w_recv = NoRecv
    /\ w_exc = NoExc
    /\ w_result = NoResponse
    /\ t_pc = [t \in Callers |-> "idle"]
    /\ t_loc = [t \in Callers |-> NoServer]
    /\ t_err = [t \in Callers |-> None]
    /\ calls = 0
    /\ athreads = <<>>
    /\ shut = {}

\* A router constructed on any port, owned by an RLM with the defaults.
Init ==
    /\ RouterInit(ConfiguredPorts)
    /\ LoopInit({DefaultMaxIterations})
    /\ RestInit({DefaultMaxDepth})

\* An RLM with any iteration bound; it constructs its router as
\* LMHandler(client), on the automatic port.
InitLoop ==
    /\ RouterInit({AutoPort})
    /\ LoopInit(0..MaxIter)
    /\ RestInit({DefaultMaxDepth})

\* The router serving: constructed, started, clients registered at any time,
\* connections handled concurrently.
Next ==
    \/ start
    \/ \E n \in ModelNames, cl \in RegClients : register_client(n, cl)
    \/ \E c \in Conns : connect(c)
    \/ \E c \in Conns : accept(c)
    \/ \E c \in Conns, s \in Streams, ok1 \in BOOLEAN, ok2 \in BOOLEAN :
          handle_request(c, s, ok1, ok2)
    \/ \E c \in Conns, ok1 \in BOOLEAN, ok2 \in BOOLEAN : completion_returns(c, ok1, ok2)
    \/ \E c \in Conns, ok \in BOOLEAN : completion_raises(c, ok)

Spec == Init /\ [][Next]_vars

\* The router's life cycle: start, stop, the finalization of stopped servers,
\* and connections carrying one well-formed request over a sound transport.
GoodStream == [kind |-> "frame",
               body |-> [type |-> "object", prompt |-> "p1", model |-> Absent]]

LifeNext ==
    \/ start
    \/ stop
    \/ \E l \in 1..MaxStarts : collect_server(l)
    \/ \E c \in Conns : connect(c)
    \/ \E c \in Conns : accept(c)
    \/ \E c \in Conns : handle_request(c, GoodStream, TRUE, TRUE)
    \/ \E c \in Conns : completion_returns(c, TRUE, TRUE)

LifeSpec == Init /\ [][LifeNext]_vars

\* The router serving over a sound transport, every frame a JSON value; the
\* threads of the server are scheduled fairly, and every completion ends
\* except, possibly, the one of the connections in Blocking.
FrameStreams == {s \in Streams : s.kind = "frame"}
Blocking == {1}

FairNext ==
    \/ start
    \/ \E c \in Conns : connect(c)
    \/ \E c \in Conns : accept(c)
    \/ \E c \in Conns, s \in FrameStreams : handle_request(c, s, TRUE, TRUE)
    \/ \E c \in Conns : completion_returns(c, TRUE, TRUE)
    \/ \E c \in Conns : completion_raises(c, TRUE)

Fairness ==
    /\ \A c \in Conns : WF_vars(accept(c))
    /\ \A c \in Conns : WF_vars(\E s \in FrameStreams : handle_request(c, s, TRUE, TRUE))
    /\ \A c \in Conns \ Blocking :
          WF_vars(completion_returns(c, TRUE, TRUE) \/ completion_raises(c, TRUE))

FairSpec == Init /\ [][FairNext]_vars /\ Fairness

\* The construction of an RLM with any max_depth, then sub-calls from the
\* code its environment executes.
MaxDepth == 1

InitConstruct ==
    /\ RouterInit({AutoPort})
    /\ LoopInit({DefaultMaxIterations})
    /\ RestInit(0..MaxDepth)

ConstructNext ==
    \/ \E n \in ModelNames, cl \in RegClients : register_other_backends(n, cl)
    \/ start
    \/ get_environment
    \/ \E c \in Conns : llm_query(c)
    \/ \E c \in Conns : accept(c)
    \/ \E c \in Conns, s \in QueryStreams : handle_request(c, s, TRUE, TRUE)
    \/ \E c \in Conns : completion_returns(c, TRUE, TRUE)
    \/ \E c \in Conns : completion_raises(c, TRUE)

ConstructSpec == InitConstruct /\ [][ConstructNext]_vars

\* One exchange over a connection: a send_lm_request call against a peer
\* that answers, closes or falls silent at any byte, or a socket_recv on a
\* framed request; every read returns any number of the bytes it may.
Ends == {"close", "stall"}

WireNext ==
    \/ \E r \in ValidRequests, end \in Ends :
          \E cut \in 0..FrameLen(json_dumps(LMRequest_to_dict(r))) :
             peer_socket_send(LMRequest_to_dict(r), cut, end)
    \/ \E r \in ValidRequests : send_lm_request(r)
    \/ \E outcome \in {"ok", "refused", "timeout"} : sock_connect(outcome)
    \/ \E ok \in BOOLEAN, end \in Ends : sock_send(ok, end)
    \/ \E k \in 0..4 : recv_len(k)
    \/ recv_chunk
    \/ recv_loads

InitWire ==
    /\ RouterInit({AutoPort})
    /\ LoopInit({DefaultMaxIterations})
    /\ RestInit({DefaultMaxDepth})

WireSpec == InitWire /\ [][WireNext]_vars

\* Threads calling start() and stop() on one handler, every step of one call
\* interleaved with the steps of the others.
RaceNext ==
    \/ \E t \in Callers : call_start(t)
    \/ \E t \in Callers : call_stop(t)
    \/ \E t \in Callers : s_check(t)
    \/ \E t \in Callers : s_construct(t)
    \/ \E t \in Callers : s_attr(t)
    \/ \E t \in Callers : s_thread(t)
    \/ \E t \in Callers : s_tstart(t)
    \/ \E t \in Callers : p_check(t)
    \/ \E t \in Callers : p_use(t)
    \/ \E t \in Callers : t_check(t)
    \/ \E t \in Callers : t_read(t)
    \/ \E t \in Callers : t_shutdown(t)
    \/ \E t \in Callers : t_clear_server(t)
    \/ \E t \in Callers : t_clear_thread(t)

RaceSpec == Init /\ [][RaceNext]_vars

\* The orchestration loop of one RLM.completion call.
LoopNext ==
    \/ rlm_completion
    \/ \E resp \in Responses : turn_completion(resp)
    \/ turn_completion_raises
    \/ turn_execute
    \/ turn_return
    \/ loop_check

LoopSpec == InitLoop /\ [][LoopNext]_vars

\* ================================================================ claims
Finished(c) == cstate[c] \in {"returned", "escaped"}
IsErrorFrame(f) == f.error # Absent /\ f.content = Absent
IsSuccessFrame(f) == f.content # Absent /\ f.error = Absent

\* The payloads the router must reject: nothing decodable, a JSON value that
\* is not an object, an object without prompt, an object with an empty prompt.
Rejectable(s) ==
    \/ s.kind \in {"closed", "midclose", "badjson"}
    \/ s.kind = "frame" /\ s.body.type # "object"
    \/ s.kind = "frame" /\ s.body.prompt \in {Absent, ""}

\* C1: a connection whose payload is not a JSON object, has no prompt or has
\* an empty prompt is never dispatched to a client, every frame written to it
\* is an error response, and one is written unless the transport failed on
\* every attempt.
C1_RejectsWithoutDispatch ==
    \A c \in Conns :
        (Finished(c) /\ Rejectable(stream[c])) =>
            /\ invoked[c] = <<>>
            /\ client[c] = None
            /\ \A i \in DOMAIN wire_out[c] : IsErrorFrame(wire_out[c][i])
            /\ Len(wire_out[c]) = 1 \/ cstate[c] = "escaped"

C1_Witness ==
    \E c \in Conns :
        /\ cstate[c] = "returned"
        /\ stream[c].kind = "frame"
        /\ stream[c].body.type = "object"
        /\ stream[c].body.prompt = ""
        /\ wire_out[c] = <<[content |-> Absent, error |-> MissingPromptMsg]>>

\* C2: whatever raises while a connection is handled (the receive, the
\* client's completion, a send), handle() returns normally, having written
\* an error response: no exception leaves handle().
C2_NoExceptionLeavesHandle ==
    \A c \in Conns :
        /\ cstate[c] # "escaped"
        /\ (cstate[c] = "returned" /\ socket_recv(stream[c]).raised) =>
              wire_out[c] = <<[content |-> Absent, error |-> socket_recv(stream[c]).msg]>>

\* C3: every success response on a connection is the output, for that
\* connection's own prompt, of the client get_client resolved for that
\* connection's own model when the request was dispatched.
C3_OwnResponse ==
    /\ [](\A c \in Conns : \A i \in DOMAIN wire_out[c] :
            IsSuccessFrame(wire_out[c][i]) =>
                /\ request[c] = LMRequest_from_dict(stream[c].body)
                /\ wire_out[c][i].content = completion(client[c], request[c].prompt))
    /\ [][\A c \in Conns :
            (cstate[c] = "accepted" /\ cstate'[c] = "calling") =>
                /\ request'[c] = LMRequest_from_dict(stream'[c].body)
                /\ client'[c] = get_client_in(clients, default_client, request'[c].model)
         ]_vars

C3_Witness ==
    /\ cstate[1] = "calling"
    /\ cstate[2] = "returned"
    /\ request[1] # request[2]
    /\ client[1] # client[2]
    /\ wire_out[2] = <<[content |-> completion(client[2], request[2].prompt),
                        error |-> Absent]>>

\* C4: a connection waiting to be accepted gets its response even while the
\* completion of another connection never returns.
C4_BlockedCompletionDelaysNobody ==
    \A c \in Conns \ Blocking :
        (cstate[c] = "backlog") ~> (cstate[c] = "returned" /\ Len(wire_out[c]) = 1)

C4_Witness ==
    /\ cstate[1] = "calling"
    /\ cstate[2] = "returned"
    /\ Len(wire_out[2]) = 1
    /\ IsSuccessFrame(wire_out[2][1])

\* C8: get_client(name) is the client registered under name when there is
\* one, the default client otherwise, for every name and the empty one too.
C8_LookupByName ==
    \A name \in ModelNames \cup {None} :
        get_client(name) =
            IF name \in DOMAIN clients THEN clients[name] ELSE default_client

\* C9: a start() on a running router returns the address the first start()
\* returned and constructs nothing: one listener, one accept thread.
C9_StartIsIdempotent ==
    (lastRet.op = "start" /\ lastRet.rerun) =>
        /\ lastRet.addr = firstStart
        /\ ~lastRet.raised
        /\ lastRet.made = 0
        /\ Cardinality({l \in DOMAIN listeners : listeners[l].serving}) = 1
        /\ _thread = _server

C9_Witness ==
    /\ lastRet.op = "start"
    /\ lastRet.rerun
    /\ lastRet.addr[2] \in EphemeralPorts

\* C10: once stop() has returned, a connection attempt is refused.
C10_RefusedAfterStop ==
    [][\A c \in Conns :
            (lastRet.op = "stop" /\ cstate[c] = "idle" /\ cstate'[c] # "idle") =>
                cstate'[c] = "refused"
      ]_vars

\* C5: when no response carries a final-answer marker, completion ends with
\* the default answer after exactly max_iterations calls, never more.
C5_FallbackAfterNCalls ==
    /\ first_marker = 0 => lm_calls <= max_iterations
    /\ (rlm_pc = "done" /\ first_marker = 0) =>
          /\ lm_calls = max_iterations
          /\ iter_i = max_iterations
          /\ final_result = _default_answer(message_history)

C5_Witness ==
    /\ rlm_pc = "done"
    /\ first_marker = 0
    /\ max_iterations = 3
    /\ lm_calls = 3
    /\ final_result = "The RLM ran out of iterations and did not find a final answer."

\* C6: when the response of call k is the first with a final-answer marker,
\* completion ends with that answer after exactly k calls; for k = 1 the
\* history then holds the one entry of the user's prompt.
C6_ReturnsAtFirstMarker ==
    /\ first_marker > 0 => lm_calls = first_marker
    /\ (rlm_pc = "done" /\ first_marker > 0) =>
          /\ final_result = FinalAnswerText
          /\ first_marker <= max_iterations
          /\ Len(message_history) >= first_marker
          /\ first_marker = 1 => message_history = <<[role |-> "user", content |-> UserPrompt]>>

C6_Witness ==
    /\ rlm_pc = "done"
    /\ first_marker = 1
    /\ lm_calls = 1
    /\ final_result = FinalAnswerText
    /\ Len(message_history) = 1

\* C7: the code blocks of an iteration are the blocks of its response, in
\* textual order, each with the result of executing it; execute_code got
\* each block once, in that order, failed blocks and the ones after them too.
C7_BlocksInOrder ==
    /\ rlm_pc \in {"exec", "check"} =>
          /\ Len(exec_log) <= Len(extract_code_blocks(response))
          /\ exec_log = SubSeq(extract_code_blocks(response), 1, Len(exec_log))
    /\ rlm_pc = "check" =>
          LET strs == extract_code_blocks(iteration.response)
          IN  /\ iteration.response = response
              /\ exec_log = strs
              /\ Len(iteration.code_blocks) = Len(strs)
              /\ \A i \in DOMAIN strs :
                    iteration.code_blocks[i] =
                        [code |-> strs[i], result |-> execute_code(strs[i])]

C7_Witness ==
    /\ rlm_pc = "check"
    /\ Len(iteration.code_blocks) = 2
    /\ iteration.code_blocks[1].code = "B"
    /\ iteration.code_blocks[1].result.stderr # ""
    /\ iteration.code_blocks[2].code = "A"
    /\ exec_log = <<"B", "A">>

\* C11: a start() that constructs a listener (any start() on a router that is
\* not running, one made after a stop() included) does not raise, leaves the
\* router serving on an open socket at the address it returns, and that
\* address carries the configured port unless the port is the automatic one.
C11_RestartServes ==
    (lastRet.op = "start" /\ ~lastRet.rerun) =>
        /\ ~lastRet.raised
        /\ _server # NoServer
        /\ listeners[_server].serving
        /\ listeners[_server].sock = "open"
        /\ lastRet.addr = <<Host, listeners[_server].port>>
        /\ _port # AutoPort => lastRet.addr[2] = _port

\* C16: no failure inside an iteration (the client's completion raising, a
\* code block failing) makes RLM.completion raise.
C16_IterationFailureContained == rlm_pc # "raised"

\* C18: stop() can return in every state, a handler blocked in a completion
\* or not; it changes nothing of any connection, and a handler that is in
\* flight can still finish, whether its listener was shut down or not.
C18_StopDoesNotWaitForHandlers ==
    /\ [](ENABLED stop)
    /\ [](\A c \in Conns :
            cstate[c] = "calling" => ENABLED completion_returns(c, TRUE, TRUE))
    /\ [][(_server # NoServer /\ lastRet'.op = "stop") => UNCHANGED connVars]_vars

C18_Witness ==
    /\ lastRet.op = "stop"
    /\ _server = NoServer
    /\ \E c \in Conns : cstate[c] = "calling" /\ ~listeners[via[c]].serving
    /\ \E c \in Conns : cstate[c] = "returned" /\ ~listeners[via[c]].serving

IsPrefix(a, b) == Len(a) <= Len(b) /\ SubSeq(b, 1, Len(a)) = a

\* C19: the history only grows at its end, and the prompt handed to a call is
\* the prompt handed to the call before it followed by the formatted messages
\* of the iteration in between; the first call gets the user's prompt.
C19_HistoryAppendOnly ==
    /\ [][IsPrefix(message_history, message_history')]_vars
    /\ [][lm_calls' = lm_calls + 1 =>
            last_prompt' = IF lm_calls = 0 THEN _setup_prompt(UserPrompt)
                           ELSE last_prompt \o format_iteration(iteration)]_vars

C19_Witness ==
    /\ lm_calls = 3
    /\ rlm_pc = "exec"
    /\ Len(last_prompt) = 5
    /\ last_prompt[2].content = <<"A", "B">>
    /\ last_prompt[5].role = "assistant"
    /\ last_prompt = message_history

\* C17: no sub-call is dispatched to a client at a nesting depth beyond
\* max_depth.
C17_DepthBoundEnforced ==
    \A c \in Conns : invoked[c] # <<>> => SubCallDepth <= max_depth

\* C20: whenever the environment exists the router is running, and the
\* environment holds the router's host and the port its listener is bound
\* to, never the automatic port; no call-back from executed code is refused.
C20_EnvironmentGetsBoundAddress ==
    /\ environment # NoEnvironment =>
          /\ _server # NoServer
          /\ listeners[_server].serving
          /\ listeners[_server].sock = "open"
          /\ environment.LM_HANDLER_HOST = Host
          /\ environment.LM_HANDLER_PORT = listeners[_server].port
          /\ environment.LM_HANDLER_PORT # AutoPort
    /\ \A c \in Conns : cstate[c] # "refused"

C20_Witness ==
    /\ environment.LM_HANDLER_PORT \in EphemeralPorts
    /\ _port = AutoPort
    /\ \E c \in Conns :
          /\ cstate[c] = "returned"
          /\ Len(wire_out[c]) = 1
          /\ IsSuccessFrame(wire_out[c][1])

\* C12: no exception leaves send_lm_request, and whenever one was raised
\* during the exchange (connection refused, timeout, a failed send, a
\* connection closed inside a message, a frame that cannot be decoded) the
\* response returned has its error set, to the text of that exception.
C12_SendLmRequestNeverRaises ==
    /\ w_pc # "raised"
    /\ (w_pc = "done" /\ w_req # NoRequest /\ w_exc # NoExc) =>
          /\ w_result = error_response("Request failed: " \o w_exc.msg)
          /\ w_result.error # None
          /\ ~success(w_result)

C12_Witness ==
    /\ w_pc = "done"
    /\ w_req # NoRequest
    /\ w_exc = [kind |-> "ConnectionError", msg |-> ConnectionClosedMsg]
    /\ Len(payload) > 0
    /\ w_result.error = "Request failed: Connection closed before message complete"

ExactlyOne(resp) == (resp.content # None) # (resp.error # None)

\* C13: every frame the router writes holds exactly one of content and
\* error, and every LMResponse send_lm_request returns has exactly one of
\* the two set and is successful exactly when its error is not set.
C13_ExactlyOneOfContentAndError ==
    /\ \A c \in Conns : \A i \in DOMAIN wire_out[c] :
          IsErrorFrame(wire_out[c][i]) # IsSuccessFrame(wire_out[c][i])
    /\ (w_pc = "done" /\ w_req # NoRequest) =>
          /\ ExactlyOne(w_result)
          /\ success(w_result) <=> w_result.error = None

\* C14: on a frame all of whose bytes arrive socket_recv returns the dict
\* that was framed, however the bytes are split over the reads; when the
\* connection is closed before four bytes of prefix have arrived it returns
\* the empty dict, and when it is closed after the prefix and before the end
\* of the payload it raises the connection-closed error.
C14_RecvReassemblesEverySplit ==
    (w_pc = "done" /\ w_recv.ran /\ rx_end = "close" /\ ~json_loads(w_sent).raised) =>
        /\ w_cut = FrameLen(w_sent) =>
              ~w_recv.raised /\ w_recv.value = json_loads(w_sent).value
        /\ w_cut < 4 =>
              ~w_recv.raised /\ w_recv.value = AsDict(EmptyDict)
        /\ (w_cut >= 4 /\ w_cut < FrameLen(w_sent)) =>
              w_recv.raised /\ w_recv.msg = ConnectionClosedMsg

\* C15: for every valid request r, from_dict(to_dict(r)) is r, and the frame
\* socket_send makes of to_dict(r) is read by socket_recv as to_dict(r).
C15_RequestRoundTrip ==
    \A r \in ValidRequests :
        /\ LMRequest_from_dict(LMRequest_to_dict(r)) = r
        /\ (/\ w_pc = "done"
            /\ w_req = NoRequest
            /\ w_sent = socket_send(LMRequest_to_dict(r)).payload
            /\ w_cut = FrameLen(w_sent)) =>
              /\ ~w_recv.raised
              /\ w_recv.value = AsDict(LMRequest_to_dict(r))
              /\ LMRequest_from_dict(w_recv.value) = r

LiveListeners == {l \in DOMAIN listeners : l \notin shut}
AcceptThreads == {i \in DOMAIN athreads : athreads[i].running}

\* C22: however the steps of concurrent start() and stop() calls interleave,
\* there is at most one live listener and one accept thread, every listener
\* ever constructed is the one the handler refers to or was shut down, and
\* no call raises for having found the server reference cleared.
C22_StartStopRaceFree ==
    /\ Cardinality(LiveListeners) <= 1
    /\ Cardinality(AcceptThreads) <= 1
    /\ \A l \in DOMAIN listeners : l = _server \/ l \in shut
    /\ \A t \in Callers : t_err[t] # "AttributeError"

====
